---- MODULE Spec2Model ----
(***************************************************************************)
(* A model of extract_games_from_html (src/src/main.py, lines 45-133) and   *)
(* of download_webpage (lines 11-43).                                      *)
(*                                                                         *)
(* The parsed document is a sequence of blocks in document order: heading  *)
(* blocks [tag, text] and table blocks [tag, trs], trs being the table's   *)
(* <tr> rows, each a sequence of raw cell texts.  Text is kept as strings  *)
(* and the string operations of the code (strip, lower, substring test,    *)
(* re.search, int, the f-string of the key) are computed on characters.    *)
(***************************************************************************)
EXTENDS Integers, Sequences, FiniteSets, TLC

VARIABLES html_content, min_year, max_year, t, r, pc, games, seen_titles

\* download_webpage: its argument, its position and result, and the world it acts
\* on: the directories that exist, whether the file system lets it create and
\* write, what the server answers, and the content of the file at output_path
VARIABLES output_path, dl_pc, result, dirs, writable, response, file_content

dlvars == <<output_path, dl_pc, result, dirs, writable, response, file_content>>

exvars == <<html_content, min_year, max_year, t, r, pc, games, seen_titles>>

vars == <<exvars, dlvars>>

(* ------------------------------ bounds --------------------------------- *)

\* longest document of the classification family, in blocks
MaxBlocks == 3
\* most data rows of the first table of the extraction family
MaxRows == 2

(* --------------------------- text operations --------------------------- *)

Char(s, i) == SubSeq(s, i, i)

UpperChars == "ABCDEFGHIJKLMNOPQRSTUVWXYZ"
LowerChars == "abcdefghijklmnopqrstuvwxyz"
DigitChars == "0123456789"

IsSpace(c) == c = " "

IsDigit(c) == \E i \in 1..10 : Char(DigitChars, i) = c

\* str.strip(): drop the leading and the trailing whitespace
Strip(s) ==
    LET keep == {i \in 1..Len(s) : ~IsSpace(Char(s, i))}
    IN  IF keep = {} THEN ""
        ELSE LET a == CHOOSE i \in keep : \A j \in keep : i <= j
                 b == CHOOSE i \in keep : \A j \in keep : j <= i
             IN  SubSeq(s, a, b)

LowerChar(c) ==
    IF \E i \in 1..26 : Char(UpperChars, i) = c
    THEN Char(LowerChars, CHOOSE i \in 1..26 : Char(UpperChars, i) = c)
    ELSE c

RECURSIVE Lower(_)
\* str.lower()
Lower(s) == IF Len(s) = 0 THEN ""
            ELSE LowerChar(Char(s, 1)) \o Lower(SubSeq(s, 2, Len(s)))

\* Python's "sub in s" on strings
Contains(s, sub) ==
    \E i \in 1..(Len(s) - Len(sub) + 1) : SubSeq(s, i, i + Len(sub) - 1) = sub

\* the cell's text taken without strip()
CellTextRaw(raw) == raw

\* cell.get_text().strip()
CellText(raw) == Strip(raw)

DigitVal(c) == (CHOOSE i \in 1..10 : Char(DigitChars, i) = c) - 1

\* int() of a string of two digits
IntOf(s) == 10 * DigitVal(Char(s, 1)) + DigitVal(Char(s, 2))

RECURSIVE Str(_)
\* the f-string's rendering of a non-negative int
Str(n) == IF n < 10 THEN Char(DigitChars, n + 1)
          ELSE Str(n \div 10) \o Char(DigitChars, (n % 10) + 1)

\* the start positions at which the pattern 19(\d{2}) matches
MatchStarts(s) ==
    {i \in 1..(Len(s) - 3) :
        /\ SubSeq(s, i, i + 1) = "19"
        /\ IsDigit(Char(s, i + 2))
        /\ IsDigit(Char(s, i + 3))}

\* the wrong choice of occurrence: the rightmost one
YearMatchRightmost(s) ==
    LET m == MatchStarts(s)
    IN  IF m = {} THEN 0 ELSE CHOOSE i \in m : \A j \in m : j <= i

\* re.search(r'19(\d{2})', release_date): the leftmost match, 0 for None
YearMatch(s) ==
    LET m == MatchStarts(s)
    IN  IF m = {} THEN 0 ELSE CHOOSE i \in m : \A j \in m : i <= j

\* int(year_match.group(1))
YearOf(s) == IntOf(SubSeq(s, YearMatch(s) + 2, YearMatch(s) + 3))

(* ------------------------------ documents ------------------------------ *)

RECURSIVE SeqsUpTo(_, _)
\* the sequences over S of length at most n
SeqsUpTo(S, n) ==
    IF n = 0 THEN {<<>>}
    ELSE LET shorter == SeqsUpTo(S, n - 1)
         IN  shorter \cup {Append(q, x) : q \in {p \in shorter : Len(p) = n - 1}, x \in S}

Heading(tag, text) == [tag |-> tag, text |-> text]
Table(trs) == [tag |-> "table", trs |-> trs]

NorthAmericaHeading == Heading("h2", "North America")

HeadingPool ==
    { NorthAmericaHeading,
      Heading("h3", " NORTH america (NTSC) "),
      Heading("h2", "Japan"),
      Heading("h4", "North America") }

TitleHeader == <<"Title", "Publisher", "Release Date">>

HeaderRows ==
    { TitleHeader,
      <<"Developer", " GAME ", "Date">>,
      <<"Game Title", "Publisher", "Date">> }

MarioRow == <<"Mario", "Nintendo", "Sep 13, 1985">>
MarioAgainRow == <<" Mario ", "NINTENDO", "1985">>
ZeldaRow == <<"Zelda", "Nintendo", "1986 (1985 JP)">>

DataRows ==
    { MarioRow,
      MarioAgainRow,
      ZeldaRow,
      <<"Bad Game (Unlicensed)", "Acme", "1990">>,
      <<"  ", "Acme", "1990">>,
      <<"Mario", "Nintendo", "Unknown">>,
      <<"Metroid", "Nintendo">>,
      <<"Metroid", "Nintendo", "2019, 1999">> }

\* tables of the classification family: no row at all, or a header and one data row
SmallTables ==
    {Table(<<>>)} \cup {Table(<<h, MarioRow>>) : h \in HeaderRows}

\* any sequence of headings and small tables
GatingDocs == SeqsUpTo(HeadingPool \cup SmallTables, MaxBlocks)

\* a North America heading and two game tables: every choice of data rows in the
\* first, at most one accepted row in the second
RowDocs ==
    { <<NorthAmericaHeading, Table(<<TitleHeader>> \o rows1), Table(<<TitleHeader>> \o rows2)>> :
        rows1 \in SeqsUpTo(DataRows, MaxRows),
        rows2 \in SeqsUpTo({MarioRow, MarioAgainRow, ZeldaRow}, 1) }

Docs == GatingDocs \cup RowDocs

YearRanges == { <<85, 95>>, <<86, 90>>, <<90, 85>> }

(* --------------------------- document queries -------------------------- *)

RECURSIVE IndicesFrom(_, _, _)
IndicesFrom(doc, tag, i) ==
    IF i > Len(doc) THEN <<>>
    ELSE (IF doc[i].tag = tag THEN <<i>> ELSE <<>>) \o IndicesFrom(doc, tag, i + 1)

\* soup.find_all('table'): the table blocks' positions, in document order
find_all_tables(doc) == IndicesFrom(doc, "table", 1)

tables == find_all_tables(html_content)

\* table.find_previous(['h2', 'h3']): the nearest h2/h3 before block i, 0 for None
find_previous(doc, i) ==
    LET hs == {j \in 1..(i - 1) : doc[j].tag \in {"h2", "h3"}}
    IN  IF hs = {} THEN 0 ELSE CHOOSE j \in hs : \A k \in hs : k <= j

\* prev_heading.get_text().strip().lower()
RegionText(doc, i) == Lower(Strip(doc[find_previous(doc, i)].text))

\* the heading test accepting every heading
NorthAmericaAny(region_text) == TRUE

\* 'north america' in region_text
IsNorthAmerica(region_text) == Contains(region_text, "north america")

current_region == "North America"

\* [cell.get_text().strip().lower() for cell in header_cells]
HeaderTexts(header_row) == {Lower(Strip(header_row[i])) : i \in 1..Len(header_row)}

\* the header test by substring instead of by equality
IsGameTableSubstring(header_texts) ==
    \E x \in header_texts : Contains(x, "title") \/ Contains(x, "game")

\* 'title' in header_texts or 'game' in header_texts
IsGameTable(header_texts) == "title" \in header_texts \/ "game" \in header_texts

\* the table at block i passes the heading check
PassesHeadingAt(doc, i) ==
    /\ find_previous(doc, i) # 0
    /\ IsNorthAmerica(RegionText(doc, i))

\* the table at block i passes the header-row check
PassesHeaderAt(doc, i) ==
    /\ Len(doc[i].trs) > 0
    /\ IsGameTable(HeaderTexts(doc[i].trs[1]))

\* the table the loop is at, and its <tr> rows
CurTable == html_content[tables[t]]
\* table.find_all('tr')[1:]
rows == Tail(CurTable.trs)
cells == rows[r]

(* ------------------------------ row logic ------------------------------ *)

\* the marker test by equality instead of by substring
IsUnlicensedExact(title) == title = "(Unlicensed)"

\* "(Unlicensed)" in title
IsUnlicensed(title) == Contains(title, "(Unlicensed)")

\* the range test without its upper bound
InRangeNoUpper(year, lo, hi) == lo <= year

\* min_year <= year <= max_year
InRange(year, lo, hi) == lo <= year /\ year <= hi

\* f"{title}_{year}_{current_region}"
unique_key(title, year, region) == title \o "_" \o Str(year) \o "_" \o region

\* the membership test that finds every key new
IsNewAlways(key, seen) == TRUE

\* unique_key not in seen_titles
IsNew(key, seen) == key \notin seen

\* the update that forgets the key
AddSeenForgets(seen, key) == seen

\* seen_titles.add(unique_key)
AddSeen(seen, key) == seen \cup {key}

GameRecord(title, publisher, year, release_date, region) ==
    [title |-> title, publisher |-> publisher, year |-> year,
     release_date |-> release_date, region |-> region]

\* the record put in front of the list
AppendGameFront(gs, rec) == <<rec>> \o gs

\* games.append({...})
AppendGame(gs, rec) == Append(gs, rec)

\* the fields the code reads from a row of at least 3 cells
TitleOf(cs) == CellText(cs[1])
PublisherOf(cs) == CellText(cs[2])
ReleaseDateOf(cs) == CellText(cs[3])

\* the row passes every test before the duplicate check
Acceptable(cs, lo, hi) ==
    /\ Len(cs) >= 3
    /\ ~IsUnlicensed(TitleOf(cs))
    /\ YearMatch(ReleaseDateOf(cs)) # 0
    /\ InRange(YearOf(ReleaseDateOf(cs)), lo, hi)

\* the record the code builds from a row
RecordOf(cs) ==
    GameRecord(TitleOf(cs), PublisherOf(cs), YearOf(ReleaseDateOf(cs)),
               ReleaseDateOf(cs), current_region)

KeyOf(cs) == unique_key(TitleOf(cs), YearOf(ReleaseDateOf(cs)), current_region)

(* ------------------------------- actions ------------------------------- *)

\* no download is under way
DlIdle ==
    /\ output_path = ""
    /\ dl_pc = "idle"
    /\ result = "none"
    /\ dirs = {}
    /\ writable = TRUE
    /\ response = [outcome |-> "none"]
    /\ file_content = "absent"

Init ==
    /\ html_content \in Docs
    /\ \E yr \in YearRanges : min_year = yr[1] /\ max_year = yr[2]
    /\ t = 1
    /\ r = 0
    /\ pc = "table"
    /\ games = <<>>
    /\ seen_titles = {}
    /\ DlIdle

AtTable == pc = "table" /\ t <= Len(tables)

\* a skipped row ends the table
SkipRowBreaks(i) == Len(rows) + 1

\* continue: the row loop goes on with the next row
SkipRow(i) == i + 1

NextTable ==
    /\ t' = t + 1
    /\ UNCHANGED <<html_content, min_year, max_year, r, pc, games, seen_titles, dlvars>>

\* if not prev_heading: continue
TableNoHeading ==
    /\ AtTable
    /\ find_previous(html_content, tables[t]) = 0
    /\ NextTable

\* if 'north america' not in region_text: continue
TableOtherRegion ==
    /\ AtTable
    /\ find_previous(html_content, tables[t]) # 0
    /\ ~IsNorthAmerica(RegionText(html_content, tables[t]))
    /\ NextTable

PassesHeading == AtTable /\ PassesHeadingAt(html_content, tables[t])

\* if not header_row: continue
TableNoHeaderRow ==
    /\ PassesHeading
    /\ Len(CurTable.trs) = 0
    /\ NextTable

\* if not ('title' in header_texts or 'game' in header_texts): continue
TableNotGameTable ==
    /\ PassesHeading
    /\ Len(CurTable.trs) > 0
    /\ ~IsGameTable(HeaderTexts(CurTable.trs[1]))
    /\ NextTable

\* the table qualifies: the row loop starts
TableEnter ==
    /\ PassesHeading
    /\ PassesHeaderAt(html_content, tables[t])
    /\ pc' = "rows"
    /\ r' = 1
    /\ UNCHANGED <<html_content, min_year, max_year, t, games, seen_titles, dlvars>>

AtRow == pc = "rows" /\ r <= Len(rows)

Skip ==
    /\ r' = SkipRow(r)
    /\ UNCHANGED <<html_content, min_year, max_year, t, pc, games, seen_titles, dlvars>>

\* len(cells) >= 3 is false
RowTooShort ==
    /\ AtRow
    /\ Len(cells) < 3
    /\ Skip

\* if "(Unlicensed)" in title: continue
RowUnlicensed ==
    /\ AtRow
    /\ Len(cells) >= 3
    /\ IsUnlicensed(TitleOf(cells))
    /\ Skip

\* year_match is None
RowNoYear ==
    /\ AtRow
    /\ Len(cells) >= 3
    /\ ~IsUnlicensed(TitleOf(cells))
    /\ YearMatch(ReleaseDateOf(cells)) = 0
    /\ Skip

\* min_year <= year <= max_year is false
RowOutOfRange ==
    /\ AtRow
    /\ Len(cells) >= 3
    /\ ~IsUnlicensed(TitleOf(cells))
    /\ YearMatch(ReleaseDateOf(cells)) # 0
    /\ ~InRange(YearOf(ReleaseDateOf(cells)), min_year, max_year)
    /\ Skip

Accepted == AtRow /\ Acceptable(cells, min_year, max_year)

\* unique_key in seen_titles: nothing is added
RowDuplicate ==
    /\ Accepted
    /\ ~IsNew(KeyOf(cells), seen_titles)
    /\ Skip

\* the key is new: it is recorded and the record appended
RowAppend ==
    /\ Accepted
    /\ IsNew(KeyOf(cells), seen_titles)
    /\ seen_titles' = AddSeen(seen_titles, KeyOf(cells))
    /\ games' = AppendGame(games, RecordOf(cells))
    /\ r' = r + 1
    /\ UNCHANGED <<html_content, min_year, max_year, t, pc, dlvars>>

\* the row loop is exhausted: on to the next table
RowsEnd ==
    /\ pc = "rows"
    /\ r > Len(rows)
    /\ pc' = "table"
    /\ t' = t + 1
    /\ UNCHANGED <<html_content, min_year, max_year, r, games, seen_titles, dlvars>>

\* return games
Return ==
    /\ pc = "table"
    /\ t > Len(tables)
    /\ pc' = "done"
    /\ UNCHANGED <<html_content, min_year, max_year, t, r, games, seen_titles, dlvars>>

Next ==
    \/ TableNoHeading
    \/ TableOtherRegion
    \/ TableNoHeaderRow
    \/ TableNotGameTable
    \/ TableEnter
    \/ RowTooShort
    \/ RowUnlicensed
    \/ RowNoYear
    \/ RowOutOfRange
    \/ RowDuplicate
    \/ RowAppend
    \/ RowsEnd
    \/ Return

Spec == Init /\ [][Next]_vars

(* --------------------------- download_webpage -------------------------- *)

\* the position after the last "/" of the path, 0 without any
LastSlash(path) ==
    LET at == {i \in 1..Len(path) : Char(path, i) = "/"}
    IN  IF at = {} THEN 0 ELSE CHOOSE i \in at : \A j \in at : j <= i

RECURSIVE RStripSlash(_)
\* head.rstrip('/')
RStripSlash(s) ==
    IF Len(s) > 0 /\ Char(s, Len(s)) = "/" THEN RStripSlash(SubSeq(s, 1, Len(s) - 1))
    ELSE s

\* the directory part taken as "." for a bare file name
DirnameOrCwd(path) ==
    LET head == SubSeq(path, 1, LastSlash(path))
    IN  IF head = "" THEN "."
        ELSE IF RStripSlash(head) = "" THEN head ELSE RStripSlash(head)

\* os.path.dirname(output_path): the text up to the last "/", without trailing
\* slashes unless it is made of slashes only; "" for a bare file name
Dirname(path) ==
    LET head == SubSeq(path, 1, LastSlash(path))
    IN  IF head = "" \/ RStripSlash(head) = "" THEN head ELSE RStripSlash(head)

\* the directory and the parents os.makedirs creates on its way
Ancestors(name) ==
    {name} \cup {SubSeq(name, 1, i - 1) : i \in {j \in 2..Len(name) : Char(name, j) = "/"}}

\* the directories that exist whatever the path: the root and the current one
BaseDirs == {"/", "."}

OutputPaths ==
    { "test_output.html",
      "assets/nes_games_list_full.html",
      "out/cache/page.html",
      "/page.html" }

Bodies == {"<html>Test content</html>", ""}

\* what requests.get meets: no connection, or an answer with status and body
Responses ==
    {[outcome |-> "error"]}
        \cup {[outcome |-> "ok", status |-> 200, content |-> b] : b \in Bodies}
        \cup {[outcome |-> "ok", status |-> st, content |-> "Not Found"] : st \in {404, 500}}

DlInit ==
    /\ output_path \in OutputPaths
    /\ dl_pc = "makedirs"
    /\ result = "none"
    /\ dirs \in {BaseDirs, BaseDirs \cup {"assets"}, BaseDirs \cup {"out"}}
    /\ writable \in BOOLEAN
    /\ response \in Responses
    /\ file_content \in {"absent", "old content"}
    /\ file_content # "absent" => DirnameOrCwd(output_path) \in dirs
    /\ html_content = <<>>
    /\ min_year = 85
    /\ max_year = 95
    /\ t = 1
    /\ r = 0
    /\ pc = "done"
    /\ games = <<>>
    /\ seen_titles = {}

\* except Exception: return False
ReturnFalse ==
    /\ result' = "False"
    /\ dl_pc' = "returned"

\* os.makedirs(name, exist_ok=True) raises: mkdir("") finds no such directory, and
\* a missing directory cannot be created where the file system does not let it
MakedirsFails(name) == name = "" \/ (name \notin dirs /\ ~writable)

DlMakedirsFail ==
    /\ dl_pc = "makedirs"
    /\ MakedirsFails(Dirname(output_path))
    /\ ReturnFalse
    /\ UNCHANGED <<exvars, output_path, dirs, writable, response, file_content>>

DlMakedirs ==
    /\ dl_pc = "makedirs"
    /\ ~MakedirsFails(Dirname(output_path))
    /\ dirs' = dirs \cup Ancestors(Dirname(output_path))
    /\ dl_pc' = "get"
    /\ UNCHANGED <<exvars, output_path, result, writable, response, file_content>>

\* requests.get raises
DlGetFail ==
    /\ dl_pc = "get"
    /\ response.outcome = "error"
    /\ ReturnFalse
    /\ UNCHANGED <<exvars, output_path, dirs, writable, response, file_content>>

\* requests.get returns the response
DlGet ==
    /\ dl_pc = "get"
    /\ response.outcome = "ok"
    /\ dl_pc' = "raise_for_status"
    /\ UNCHANGED <<exvars, output_path, result, dirs, writable, response, file_content>>

\* response.raise_for_status() raises for a 4xx or 5xx status
DlHttpError ==
    /\ dl_pc = "raise_for_status"
    /\ response.status >= 400
    /\ ReturnFalse
    /\ UNCHANGED <<exvars, output_path, dirs, writable, response, file_content>>

DlStatusOk ==
    /\ dl_pc = "raise_for_status"
    /\ response.status < 400
    /\ dl_pc' = "write"
    /\ UNCHANGED <<exvars, output_path, result, dirs, writable, response, file_content>>

\* open(output_path, 'wb') raises
DlWriteFail ==
    /\ dl_pc = "write"
    /\ ~writable
    /\ ReturnFalse
    /\ UNCHANGED <<exvars, output_path, dirs, writable, response, file_content>>

\* f.write(response.content); return True
DlWrite ==
    /\ dl_pc = "write"
    /\ writable
    /\ file_content' = response.content
    /\ result' = "True"
    /\ dl_pc' = "returned"
    /\ UNCHANGED <<exvars, output_path, dirs, writable, response>>

DlNext ==
    \/ DlMakedirsFail
    \/ DlMakedirs
    \/ DlGetFail
    \/ DlGet
    \/ DlHttpError
    \/ DlStatusOk
    \/ DlWriteFail
    \/ DlWrite

DlSpec == DlInit /\ [][DlNext]_vars

(* ------------------------- the document, as read ----------------------- *)

Headings == {"h2", "h3"}

\* block i is a table whose nearest preceding h2/h3 carries the marker
HasMarkerHeading(doc, i) ==
    \E j \in 1..(i - 1) :
        /\ doc[j].tag \in Headings
        /\ \A k \in (j + 1)..(i - 1) : doc[k].tag \notin Headings
        /\ Contains(Lower(Strip(doc[j].text)), "north america")

\* the first row of table i has a cell reading "title" or "game"
HasGameHeader(doc, i) ==
    /\ Len(doc[i].trs) > 0
    /\ \E c \in 1..Len(doc[i].trs[1]) :
          Lower(Strip(doc[i].trs[1][c])) \in {"title", "game"}

TableBlocks(doc) == {i \in 1..Len(doc) : doc[i].tag = "table"}

\* the tables whose rows the code walks
QualifyingTables(doc) ==
    {i \in TableBlocks(doc) : HasMarkerHeading(doc, i) /\ HasGameHeader(doc, i)}

\* the data rows of the document: <<block of the table, index of the row>>
RowPositions(doc, tabs) ==
    UNION {{<<i, q>> : q \in 1..(Len(doc[i].trs) - 1)} : i \in tabs}

RowAt(doc, p) == doc[p[1]].trs[p[2] + 1]

\* encounter order: earlier table, or earlier row of the same table
Before(p1, p2) == p1[1] < p2[1] \/ (p1[1] = p2[1] /\ p1[2] < p2[2])

First(S) == CHOOSE p \in S : \A q \in S : p = q \/ Before(p, q)

\* the rows of qualifying tables that pass the row tests of this call
AcceptedRows ==
    {p \in RowPositions(html_content, QualifyingTables(html_content)) :
        Acceptable(RowAt(html_content, p), min_year, max_year)}

Triple(rec) == <<rec.title, rec.year, rec.region>>

\* the accepted rows that carry the record's (title, year, region)
RowsWithTriple(rec) ==
    {p \in AcceptedRows : Triple(RecordOf(RowAt(html_content, p))) = Triple(rec)}

\* the accepted rows from which the code builds exactly this record
RowsYielding(rec) ==
    {p \in AcceptedRows : RecordOf(RowAt(html_content, p)) = rec}

Done == pc = "done"

(* -------------------------------- claims ------------------------------- *)

\* C1: no two records of the returned list share (title, year, region), also when
\* the duplicate rows sit in different qualifying tables.
C1_UniqueTriples ==
    \A i, j \in 1..Len(games) : i # j => Triple(games[i]) # Triple(games[j])

\* the run has ended on a document with the same triple accepted in two tables
C1_Witness ==
    /\ Done
    /\ \E p1, p2 \in AcceptedRows :
          /\ p1[1] # p2[1]
          /\ Triple(RecordOf(RowAt(html_content, p1)))
               = Triple(RecordOf(RowAt(html_content, p2)))

\* C2: every record has min_year <= year <= max_year, so the result is empty
\* whenever min_year > max_year.
C2_YearInRange ==
    /\ \A i \in 1..Len(games) : min_year <= games[i].year /\ games[i].year <= max_year
    /\ min_year > max_year => games = <<>>

HasYear(cs) == Len(cs) >= 3 /\ MatchStarts(Strip(cs[3])) # {}

\* the run has ended with records, on a document with a licensed dated row of a
\* qualifying table whose year lies outside the range
C2_Witness ==
    /\ Done
    /\ games # <<>>
    /\ \E p \in RowPositions(html_content, QualifyingTables(html_content)) :
          LET cs == RowAt(html_content, p)
          IN  /\ HasYear(cs)
              /\ ~Contains(Strip(cs[1]), "(Unlicensed)")
              /\ ~(min_year <= YearOf(Strip(cs[3])) /\ YearOf(Strip(cs[3])) <= max_year)

\* C3: no record's title contains "(Unlicensed)": a row whose first cell's
\* stripped text contains the marker is skipped, whatever its publisher and date.
C3_NoUnlicensed ==
    \A i \in 1..Len(games) : ~Contains(games[i].title, "(Unlicensed)")

\* the run has ended on a document with a marked row, dated in range, in a
\* qualifying table
C3_Witness ==
    /\ Done
    /\ \E p \in RowPositions(html_content, QualifyingTables(html_content)) :
          LET cs == RowAt(html_content, p)
          IN  /\ HasYear(cs)
              /\ Contains(Strip(cs[1]), "(Unlicensed)")
              /\ InRange(YearOf(Strip(cs[3])), min_year, max_year)

C5_TitleNonEmpty ==
    \A i \in 1..Len(games) : games[i].title # ""

\* C5, amended: a record's title is the stripped text of the first cell and may be
\* empty: a row of a qualifying table with at least 3 cells and an in-range 19xx
\* date whose first cell's normalized text is empty does produce a record, with
\* the empty string as its title.
C5_TitleStrippedMayBeEmpty ==
    /\ \A i \in 1..Len(games) : games[i].title = Strip(games[i].title)
    /\ Done =>
          \A p \in RowPositions(html_content, QualifyingTables(html_content)) :
              LET cs == RowAt(html_content, p)
              IN  (/\ HasYear(cs)
                   /\ Strip(cs[1]) = ""
                   /\ InRange(YearOf(Strip(cs[3])), min_year, max_year))
                  => \E i \in 1..Len(games) :
                        /\ games[i].title = ""
                        /\ games[i].year = YearOf(Strip(cs[3]))

\* the run has ended with a record whose title is empty
C5_Witness ==
    Done /\ \E i \in 1..Len(games) : games[i].title = ""

\* the text has "19" and two digits at position p
IsYearAt(d, p) ==
    /\ p + 3 <= Len(d)
    /\ Char(d, p) = "1"
    /\ Char(d, p + 1) = "9"
    /\ IsDigit(Char(d, p + 2))
    /\ IsDigit(Char(d, p + 3))

C7_EncounterOrder ==
    \A i, j \in 1..Len(games) :
        i < j =>
            /\ RowsYielding(games[i]) # {}
            /\ RowsYielding(games[j]) # {}
            /\ Before(First(RowsYielding(games[i])), First(RowsYielding(games[j])))

\* the run has ended with a later year listed before an earlier one, the two
\* records coming from different tables
C7_Witness ==
    /\ Done
    /\ \E i, j \in 1..Len(games) :
          /\ i < j
          /\ games[i].year > games[j].year
          /\ First(RowsYielding(games[i]))[1] # First(RowsYielding(games[j]))[1]

\* the row under the cursor is accepted and its triple is already in the list
DuplicateHere ==
    /\ pc = "rows"
    /\ t <= Len(tables)
    /\ r <= Len(rows)
    /\ Acceptable(cells, min_year, max_year)
    /\ \E i \in 1..Len(games) : Triple(games[i]) = Triple(RecordOf(cells))

\* C8: first occurrence wins: each record is the one built from the first accepted
\* row with its (title, year, region), publisher and release_date included; a later
\* row with that key changes nothing, and no record is replaced, moved or mutated.
C8_FirstOccurrenceWins ==
    /\ [](\A i \in 1..Len(games) :
            /\ RowsWithTriple(games[i]) # {}
            /\ games[i] = RecordOf(RowAt(html_content, First(RowsWithTriple(games[i])))))
    /\ [][/\ \A i \in 1..Len(games) : i <= Len(games') /\ games'[i] = games[i]
          /\ DuplicateHere => games' = games]_vars

\* the run has ended on a document where two accepted rows share the triple and
\* differ in publisher
C8_Witness ==
    /\ Done
    /\ \E p1, p2 \in AcceptedRows :
          /\ Before(p1, p2)
          /\ Triple(RecordOf(RowAt(html_content, p1)))
               = Triple(RecordOf(RowAt(html_content, p2)))
          /\ RecordOf(RowAt(html_content, p1)).publisher
               # RecordOf(RowAt(html_content, p2)).publisher

\* C9: a table passing the heading check contributes records only if a cell of its
\* first row reads, trimmed and lower-cased, "title" or "game": every step that
\* adds a record is a row step of a table with such a header row.
C9_HeaderGating ==
    [][games' # games =>
          /\ pc = "rows"
          /\ t <= Len(tables)
          /\ HasGameHeader(html_content, tables[t])]_vars

\* the run has ended on a document with a table that passes the heading check,
\* fails the header-row check and has a row passing every row test
C9_Witness ==
    /\ Done
    /\ \E i \in TableBlocks(html_content) :
          /\ HasMarkerHeading(html_content, i)
          /\ ~HasGameHeader(html_content, i)
          /\ \E p \in RowPositions(html_content, {i}) :
                Acceptable(RowAt(html_content, p), min_year, max_year)

\* C10: a row does not stop the run, skipped or not: the step at a row leaves the
\* cursor on the next row of the same table, and at the return every row of a
\* qualifying table that passes the row tests has its record in the list, whatever
\* rows were skipped before it.
C10_SkipsDoNotStopTheRun ==
    /\ [][(pc = "rows" /\ r <= Len(rows)) => (pc' = "rows" /\ t' = t /\ r' = r + 1)]_vars
    /\ [](Done =>
            \A p \in AcceptedRows :
                \E i \in 1..Len(games) :
                    Triple(games[i]) = Triple(RecordOf(RowAt(html_content, p))))

\* the run has ended on a document with a skipped row followed by an accepted row
\* of the same table and by an accepted row of a later table
C10_Witness ==
    /\ Done
    /\ \E p \in RowPositions(html_content, QualifyingTables(html_content)) :
          /\ ~Acceptable(RowAt(html_content, p), min_year, max_year)
          /\ \E q1, q2 \in AcceptedRows :
                /\ q1[1] = p[1]
                /\ Before(p, q1)
                /\ p[1] < q2[1]
                /\ Triple(RecordOf(RowAt(html_content, q1)))
                     # Triple(RecordOf(RowAt(html_content, q2)))

\* the server answers and the status is no error status
RequestSucceeds == response.outcome = "ok" /\ response.status < 400

\* the directory of output_path exists or can be created, and the file written
FileSystemAllows == writable

\* C11: download_webpage never raises; for any output_path it returns True with the
\* file at output_path holding exactly the response body when the HTTP request
\* succeeds (and nothing else fails), and False when a step fails: request error,
\* HTTP error status, directory creation or file write failure.
C11_DownloadResult ==
    dl_pc = "returned" =>
        /\ result \in {"True", "False"}
        /\ (RequestSucceeds /\ FileSystemAllows)
              => (result = "True" /\ file_content = response.content)
        /\ ~(RequestSucceeds /\ FileSystemAllows) => result = "False"

====
